---- MODULE Spec2Model ----
(***************************************************************************)
(* A model of py2deb's high level conversion logic, the PackageConverter   *)
(* class of py2deb/converter.py: the configuration setters, the package    *)
(* name transformation, the retry loop around pip-accel and the conversion *)
(* loop of convert().                                                      *)
(*                                                                         *)
(* Strings are sequences of one-character strings, so that lower-casing,   *)
(* normalisation, splitting, formatting and sorting are computed character *)
(* by character.                                                           *)
(***************************************************************************)
EXTENDS Integers, Sequences, FiniteSets, TLC

(***************************************************************************)
(* Characters.                                                             *)
(***************************************************************************)

\* The printable characters the model uses, in ascending code point order
\* (the order Python compares one-character strings in).
AsciiOrder ==
    << " ", "(", ")", "-", ".", "/",
       "0", "1", "2", "3", "4", "5", "6", "7", "8", "9", "=",
       "A", "B", "C", "D", "E", "F", "G", "H", "I", "J", "K", "L", "M",
       "N", "O", "P", "Q", "R", "S", "T", "U", "V", "W", "X", "Y", "Z",
       "_",
       "a", "b", "c", "d", "e", "f", "g", "h", "i", "j", "k", "l", "m",
       "n", "o", "p", "q", "r", "s", "t", "u", "v", "w", "x", "y", "z" >>

UpperCase ==
    << "A", "B", "C", "D", "E", "F", "G", "H", "I", "J", "K", "L", "M",
       "N", "O", "P", "Q", "R", "S", "T", "U", "V", "W", "X", "Y", "Z" >>

LowerCase ==
    << "a", "b", "c", "d", "e", "f", "g", "h", "i", "j", "k", "l", "m",
       "n", "o", "p", "q", "r", "s", "t", "u", "v", "w", "x", "y", "z" >>

Digits == { "0", "1", "2", "3", "4", "5", "6", "7", "8", "9" }

Range(f) == { f[x] : x \in DOMAIN f }

UpperCaseLetters == Range(UpperCase)
LowerCaseLetters == Range(LowerCase)

\* ord(c): the position of a character in the code point order.
Ord(c) == CHOOSE i \in DOMAIN AsciiOrder : AsciiOrder[i] = c

\* str.lower() on one character.
LowerChar(c) ==
    IF c \in UpperCaseLetters
    THEN LowerCase[CHOOSE i \in DOMAIN UpperCase : UpperCase[i] = c]
    ELSE c

\* str.upper() on one character.
UpperChar(c) ==
    IF c \in LowerCaseLetters
    THEN UpperCase[CHOOSE i \in DOMAIN LowerCase : LowerCase[i] = c]
    ELSE c

\* str.lower()
lower(s) == [ i \in DOMAIN s |-> LowerChar(s[i]) ]

\* The separator of words in a Debian package name.
Sep == "-"

\* The alphabet a normalized name keeps: lower case letters and digits.
AllowedChars == LowerCaseLetters \cup Digits
AllowedChar(c) == c \in AllowedChars

(***************************************************************************)
(* String helpers of Python used by the converter.                         *)
(***************************************************************************)

\* a < b for strings, as Python compares them: by code point, a proper
\* prefix first.
RECURSIVE StrLess(_, _)
StrLess(a, b) ==
    IF b = << >> THEN FALSE
    ELSE IF a = << >> THEN TRUE
    ELSE IF Head(a) = Head(b) THEN StrLess(Tail(a), Tail(b))
    ELSE Ord(Head(a)) < Ord(Head(b))

StrLeq(a, b) == a = b \/ StrLess(a, b)

\* s.startswith(p)
StartsWith(s, p) == Len(p) <= Len(s) /\ SubSeq(s, 1, Len(p)) = p

\* s.split(sep) for a one-character separator: "a--b" gives a, "", b and
\* the empty string gives one empty word.
RECURSIVE SplitFrom(_, _, _)
SplitFrom(s, sep, word) ==
    IF s = << >> THEN << word >>
    ELSE IF Head(s) = sep THEN << word >> \o SplitFrom(Tail(s), sep, << >>)
    ELSE SplitFrom(Tail(s), sep, Append(word, Head(s)))

split(s, sep) == SplitFrom(s, sep, << >>)

\* sep.join(words)
RECURSIVE join(_, _)
join(sep, words) ==
    IF words = << >> THEN << >>
    ELSE IF Len(words) = 1 THEN words[1]
    ELSE words[1] \o << sep >> \o join(sep, Tail(words))

\* sorted(list) of strings: insertion into an ascending list.
RECURSIVE InsertSorted(_, _)
InsertSorted(x, l) ==
    IF l = << >> THEN << x >>
    ELSE IF StrLeq(x, Head(l)) THEN << x >> \o l
    ELSE << Head(l) >> \o InsertSorted(x, Tail(l))

RECURSIVE sorted(_)
sorted(l) ==
    IF l = << >> THEN << >>
    ELSE InsertSorted(Head(l), sorted(Tail(l)))

(***************************************************************************)
(* py2deb.utils, imported by the converter (converter.py line 34).         *)
(***************************************************************************)

\* Every run of characters outside the allowed alphabet becomes one
\* separator.
RECURSIVE ReplaceRuns(_, _)
ReplaceRuns(s, inRun) ==
    IF s = << >> THEN << >>
    ELSE IF AllowedChar(Head(s)) \/ Head(s) = Sep
         THEN << Head(s) >> \o ReplaceRuns(Tail(s), FALSE)
    ELSE IF inRun THEN ReplaceRuns(Tail(s), TRUE)
    ELSE << Sep >> \o ReplaceRuns(Tail(s), TRUE)

\* Repeated separators collapse into one.
RECURSIVE CollapseSeparators(_)
CollapseSeparators(s) ==
    IF Len(s) < 2 THEN s
    ELSE IF s[1] = Sep /\ s[2] = Sep THEN CollapseSeparators(Tail(s))
    ELSE << Head(s) >> \o CollapseSeparators(Tail(s))

\* normalize_package_name(): lower-case, replace the runs of characters
\* outside the allowed alphabet by a separator, collapse the separators.
normalize_package_name(name) ==
    CollapseSeparators(ReplaceRuns(lower(name), FALSE))

\* compact_repeating_words(): a word identical (case-insensitively) to the
\* word immediately before it is dropped.
RECURSIVE compact_repeating_words(_)
compact_repeating_words(words) ==
    IF Len(words) < 2 THEN words
    ELSE IF lower(words[1]) = lower(words[2])
         THEN compact_repeating_words(Tail(words))
    ELSE << Head(words) >> \o compact_repeating_words(Tail(words))

(***************************************************************************)
(* Constants of the program.                                               *)
(***************************************************************************)

\* self.max_download_attempts = 10
DefaultMaxDownloadAttempts == 10

\* tempfile.gettempdir(). Path names are only ever compared, so they are
\* kept as whole strings.
TempDir == "/tmp"

(***************************************************************************)
(* The state.                                                              *)
(***************************************************************************)

VARIABLES
    \* The attributes of a PackageConverter (__init__).
    alternatives,
    auto_install,
    install_prefix,
    max_download_attempts,
    name_mapping,
    name_prefix,
    repository,
    scripts,
    \* The last call of a configuration method: its name, its arguments and
    \* the exception it raised ("none" when it returned).
    last_op,
    \* The environment: the directories that exist, the archives in each
    \* repository directory, what `uname --machine' prints, and the number
    \* of archives the Packager has built so far.
    dirs,
    files,
    machine,
    builds,
    \* The converters at work (one per process) and, for each, the call of
    \* convert() it is in: where the call stands, its local variables and
    \* what it has asked of its collaborators.
    procs,
    pc,
    calls,
    backend,
    sources_directory,
    primary_packages,
    i,
    yielded,
    package,
    archive,
    stats,
    fault,
    error,
    result,
    \* The call of load_configuration() under way, if any: the file, the
    \* settings read from it that are still to be applied, and where the
    \* call stands.
    loading

config_vars ==
    << alternatives, auto_install, install_prefix, max_download_attempts,
       name_mapping, name_prefix, repository, scripts >>

env_vars == << dirs, files, machine, builds >>

convert_vars ==
    << procs, pc, calls, backend, sources_directory, primary_packages, i,
       yielded, package, archive, stats, fault, error, result >>

vars == << config_vars, last_op, env_vars, convert_vars, loading >>

\* load_configuration() has not been called.
NoLoad == [ state |-> "none", file |-> "", pending |-> << >> ]

\* Python's None: a value that is no string.
None == << "None" >>

(***************************************************************************)
(* Inputs of the naming methods.                                           *)
(***************************************************************************)

\* The longest name the naming properties are checked over.
MaxNameLen == 3

\* The characters those names are made of: an allowed letter, its upper
\* case, a second allowed letter, a character outside the alphabet and the
\* separator.
ModelAlphabet == { "a", "A", "b", "_", "-" }

\* All strings over an alphabet of at most n characters.
RECURSIVE StringsUpTo(_, _)
StringsUpTo(alphabet, n) ==
    IF n = 0 THEN { << >> }
    ELSE LET shorter == StringsUpTo(alphabet, n - 1)
         IN shorter \cup { Append(s, c) : s \in shorter, c \in alphabet }

s_python == << "p", "y", "t", "h", "o", "n" >>
s_py2deb == << "p", "y", "2", "d", "e", "b" >>
s_Flask == << "F", "l", "a", "s", "k" >>
s_foo == << "f", "o", "o" >>
s_FOO == << "F", "O", "O" >>
s_custom_foo == << "c", "u", "s", "t", "o", "m", "-", "f", "o", "o" >>
s_Custom_Foo == << "C", "u", "s", "t", "o", "m", "_", "F", "o", "o" >>
s_a == << "a" >>
s_b == << "b" >>
s_a_a == << "a", "-", "a" >>

\* The prefixes set_name_prefix() is called with.
PrefixSamples ==
    { s_python, s_py2deb, s_a, s_a_a, << "A", "_", "b" >>, << >> }

\* The names rename_package() is called with.
PythonNameSamples == { s_foo, s_Flask, << >> }
DebianNameSamples == { s_custom_foo, s_Custom_Foo, s_a_a, << >> }

\* The names transform_name() is checked on.
NameUniverse ==
    StringsUpTo(ModelAlphabet, MaxNameLen)
        \cup { s_python, s_py2deb, s_Flask, s_foo, s_FOO }

\* The strings equal to s but for the case of their letters.
RECURSIVE CaseVariants(_)
CaseVariants(s) ==
    IF s = << >> THEN { << >> }
    ELSE { << c >> \o rest :
             c \in { LowerChar(Head(s)), UpperChar(Head(s)) },
             rest \in CaseVariants(Tail(s)) }

(***************************************************************************)
(* The configuration methods.                                              *)
(***************************************************************************)

\* dict.get(key): the value, or None.
Get(mapping, key) == IF key \in DOMAIN mapping THEN mapping[key] ELSE None

\* mapping[key] = value
Put(mapping, key, value) ==
    [ k \in DOMAIN mapping \cup { key } |->
        IF k = key THEN value ELSE mapping[k] ]

\* "not x" for a string or None.
Falsy(x) == x = None \/ x = << >>

\* set_name_prefix(prefix)
set_name_prefix(prefix) ==
    /\ IF Falsy(prefix)
       THEN /\ last_op' = [ op |-> "set_name_prefix", args |-> << prefix >>,
                            raised |-> "ValueError" ]
            /\ UNCHANGED name_prefix
       ELSE /\ name_prefix' = prefix
            /\ last_op' = [ op |-> "set_name_prefix", args |-> << prefix >>,
                            raised |-> "none" ]
    /\ UNCHANGED << alternatives, auto_install, install_prefix,
                    max_download_attempts, name_mapping, repository,
                    scripts, env_vars, convert_vars >>

\* rename_package(python_package_name, debian_package_name)
rename_package(python_package_name, debian_package_name) ==
    /\ IF Falsy(python_package_name) \/ Falsy(debian_package_name)
       THEN /\ last_op' = [ op |-> "rename_package",
                            args |-> << python_package_name,
                                        debian_package_name >>,
                            raised |-> "ValueError" ]
            /\ UNCHANGED name_mapping
       ELSE /\ name_mapping' = Put(name_mapping, lower(python_package_name),
                                   lower(debian_package_name))
            /\ last_op' = [ op |-> "rename_package",
                            args |-> << python_package_name,
                                        debian_package_name >>,
                            raised |-> "none" ]
    /\ UNCHANGED << alternatives, auto_install, install_prefix,
                    max_download_attempts, name_prefix, repository, scripts,
                    env_vars, convert_vars >>

(***************************************************************************)
(* transform_name()                                                        *)
(***************************************************************************)

\* The name the converter makes up when the caller gave no override.
WithNamePrefix(python_package_name) ==
    LET with_name_prefix ==
            name_prefix \o << Sep >> \o python_package_name
        normalized_words ==
            split(normalize_package_name(with_name_prefix), Sep)
    IN join(Sep, compact_repeating_words(normalized_words))

\* transform_name() with the look-up of the override not lower-cased.
transform_name_case_sensitive(python_package_name) ==
    LET debian_package_name == Get(name_mapping, python_package_name)
    IN normalize_package_name(
           IF Falsy(debian_package_name)
           THEN WithNamePrefix(python_package_name)
           ELSE debian_package_name)

\* transform_name() with the repeating words left in place.
transform_name_not_compacted(python_package_name) ==
    LET debian_package_name == Get(name_mapping, lower(python_package_name))
    IN normalize_package_name(
           IF Falsy(debian_package_name)
           THEN normalize_package_name(
                    name_prefix \o << Sep >> \o python_package_name)
           ELSE debian_package_name)

\* transform_name() with an override returned as the caller gave it.
transform_name_override_as_given(python_package_name) ==
    LET debian_package_name == Get(name_mapping, lower(python_package_name))
    IN IF Falsy(debian_package_name)
       THEN normalize_package_name(WithNamePrefix(python_package_name))
       ELSE debian_package_name

\* transform_name(python_package_name)
transform_name(python_package_name) ==
    LET debian_package_name == Get(name_mapping, lower(python_package_name))
    IN normalize_package_name(
           IF Falsy(debian_package_name)
           THEN WithNamePrefix(python_package_name)
           ELSE debian_package_name)

(***************************************************************************)
(* The environment of a conversion: directories, the resolver's answers,   *)
(* the machine.                                                            *)
(***************************************************************************)

\* A second directory that exists and a path that is no directory.
RepoDir == "/srv/repository"
MissingDir == "/srv/missing"

\* The directories set_repository() is called with.
DirectorySamples == { RepoDir, MissingDir }

\* The directory a call of convert() gets from TemporaryDirectory, one
\* name per converter.
ScratchDirs == << "/tmp/py2deb-sdists-1", "/tmp/py2deb-sdists-2" >>

\* Where the Packager leaves an archive it does not write into the
\* repository directory.
BuildDir == "/tmp/py2deb-build"

\* The largest max_download_attempts a caller sets besides the default,
\* and the largest number of times a fetch backend reports `not found'
\* before it succeeds.
MaxAttempts == 1
MaxK == 2

\* The requirements pip resolves the install arguments to: two packages
\* the caller asked for and one build dependency.
req_a == [ name |-> s_a, version |-> << "1" >>, is_direct |-> TRUE ]
req_b == [ name |-> s_b, version |-> << "1" >>, is_direct |-> TRUE ]
req_c == [ name |-> << "c" >>, version |-> << "2" >>, is_direct |-> FALSE ]
Requirements == { req_a, req_b, req_c }

s_python_a == << "p", "y", "t", "h", "o", "n", "-", "a" >>
s_python_b == << "p", "y", "t", "h", "o", "n", "-", "b" >>

\* The archives the repository directory may hold before the first call:
\* python-a 1 for the architecture amd64 and python-b 1 for i386.
\* build is the serial number of the Packager run that wrote the archive
\* (0: it was there before), which stands for the archive's content.
Artifact(name, version, architecture, build) ==
    [ name |-> name, version |-> version, architecture |-> architecture,
      build |-> build ]

OldArchives ==
    { Artifact(s_python_a, << "1" >>, "amd64", 0),
      Artifact(s_python_b, << "1" >>, "i386", 0) }

\* What `uname --machine' prints: a supported machine (for which i386 is
\* a foreign architecture) or an unsupported one.
Machines == { "x86_64", "armv7l" }

\* The name mappings a conversion runs under: none, and python-a for b.
MappingSamples == { << >>, [ n \in { s_b } |-> s_python_a ] }

NoPackage == [ name |-> << >>, version |-> << >>, is_direct |-> FALSE ]
NoArchive == [ directory |-> "", artifact |-> Artifact(<< >>, << >>, "", 0) ]
NoError == [ type |-> "none", origin |-> "none", tried |-> 0 ]
NoStats ==
    [ unpack |-> 0, not_found |-> 0, download |-> 0, convert |-> 0,
      skipped |-> 0, moved |-> 0 ]

\* os.path.isdir()
isdir(directory) == directory \in dirs

\* The (name, version, architecture) triple of an archive: its file name.
Triple(a) == << a.name, a.version, a.architecture >>

(***************************************************************************)
(* debian_architecture, and the parts of py2deb.utils and py2deb.package   *)
(* the conversion uses.                                                    *)
(***************************************************************************)

Unsupported == "unsupported"

\* debian_architecture: i386 or amd64, and an exception (Unsupported)
\* for any other machine.
debian_architecture ==
    IF machine = "i686" THEN "i386"
    ELSE IF machine = "x86_64" THEN "amd64"
    ELSE Unsupported

\* PackageRepository.get_package(): the archives of the directory with
\* this name, version and architecture.
get_package(directory, name, version, architecture) ==
    { a \in files[directory] :
        Triple(a) = << name, version, architecture >> }

\* PackageToConvert.debian_name, .debian_version and .existing_archive
debian_name(requirement) == transform_name(requirement.name)
debian_version(requirement) == requirement.version
existing_archive(requirement) ==
    get_package(repository, debian_name(requirement),
                debian_version(requirement), debian_architecture)

\* TemporaryDirectory.__exit__(): the directory is removed.
TemporaryDirectory_exit(directory) == dirs \ { directory }

\* '%s (=%s)' % (package.debian_name, package.debian_version)
Dependency(requirement) ==
    debian_name(requirement) \o << " ", "(", "=" >>
        \o debian_version(requirement) \o << ")" >>

\* [f(x) for x in list]
RECURSIVE Dependencies(_)
Dependencies(packages) ==
    IF packages = << >> THEN << >>
    ELSE << Dependency(Head(packages)) >> \o Dependencies(Tail(packages))

(***************************************************************************)
(* set_repository()                                                        *)
(***************************************************************************)

\* The converter is configured before it converts (the program is single
\* threaded: no configuration method runs during a conversion).
Configuring == \A self \in procs : pc[self] = "idle"

\* set_repository() without the check of the directory.
set_repository_unchecked(directory) ==
    /\ Configuring
    /\ repository' = directory
    /\ last_op' = [ op |-> "set_repository", args |-> << directory >>,
                    raised |-> IF isdir(directory) THEN "none"
                               ELSE "ValueError" ]
    /\ UNCHANGED << alternatives, auto_install, install_prefix,
                    max_download_attempts, name_mapping, name_prefix,
                    scripts, env_vars, convert_vars >>

\* set_repository(directory); the samples are absolute path names, which
\* os.path.abspath() returns as they are.
set_repository(directory) ==
    /\ Configuring
    /\ IF ~ isdir(directory)
       THEN /\ last_op' = [ op |-> "set_repository",
                            args |-> << directory >>,
                            raised |-> "ValueError" ]
            /\ UNCHANGED repository
       ELSE /\ repository' = directory
            /\ last_op' = [ op |-> "set_repository",
                            args |-> << directory >>, raised |-> "none" ]
    /\ UNCHANGED << alternatives, auto_install, install_prefix,
                    max_download_attempts, name_mapping, name_prefix,
                    scripts, env_vars, convert_vars >>

(***************************************************************************)
(* convert() and get_source_distributions()                                *)
(*                                                                         *)
(* A call of convert() is a sequence of steps, one per call of a           *)
(* collaborator: pc is "attempt" at the head of the retry loop, "unpack"   *)
(* while the requirements of unpack_source_dists() are iterated,           *)
(* "convert" before package.convert(), "move" before shutil.move(), and    *)
(* "returned" or "raised" once the call has ended.                         *)
(***************************************************************************)

\* The variables a step of convert() leaves alone unless it says otherwise.
Set(var, self, value) == [ var EXCEPT ![self] = value ]

Count(self, field) ==
    [ stats EXCEPT ![self] = [ @ EXCEPT ![field] = @ + 1 ] ]

HardError(origin) == [ type |-> "Exception", origin |-> origin, tried |-> 0 ]

\* An exception leaves convert() and leaves the scratch directory behind.
Raise_without_cleanup(self, exception) ==
    /\ pc' = Set(pc, self, "raised")
    /\ error' = Set(error, self, exception)
    /\ dirs' = dirs

\* An exception leaves convert() through the with statement, which
\* removes the scratch directory.
Raise(self, exception) ==
    /\ pc' = Set(pc, self, "raised")
    /\ error' = Set(error, self, exception)
    /\ dirs' = TemporaryDirectory_exit(sources_directory[self])

\* convert(pip_install_arguments) is called: the scratch directory is
\* made and the generator of get_source_distributions() is created. What
\* pip resolves the arguments to, and how many times the fetch backend
\* reports `not found' before it succeeds, are this call's inputs.
convert(self, requirements, k) ==
    /\ pc[self] = "idle"
    /\ calls' = Set(calls, self, calls[self] + 1)
    /\ backend' = Set(backend, self, [ requirements |-> requirements, k |-> k ])
    /\ sources_directory' = Set(sources_directory, self, ScratchDirs[self])
    /\ dirs' = dirs \cup { ScratchDirs[self] }
    /\ primary_packages' = Set(primary_packages, self, << >>)
    /\ i' = Set(i, self, 1)
    /\ yielded' = Set(yielded, self, { })
    /\ package' = Set(package, self, NoPackage)
    /\ archive' = Set(archive, self, NoArchive)
    /\ stats' = Set(stats, self, NoStats)
    /\ fault' = Set(fault, self, "none")
    /\ error' = Set(error, self, NoError)
    /\ result' = Set(result, self, << >>)
    /\ pc' = Set(pc, self, "attempt")
    /\ UNCHANGED << config_vars, last_op, files, machine, builds, procs >>

\* The retry loop with one attempt too few: range(1, max_download_attempts).
get_source_distributions_off_by_one(self) ==
    /\ pc[self] = "attempt"
    /\ IF i[self] < max_download_attempts
       THEN /\ pc' = Set(pc, self, "unpack")
            /\ yielded' = Set(yielded, self, { })
            /\ stats' = Count(self, "unpack")
            /\ UNCHANGED << error, dirs >>
       ELSE /\ Raise(self, [ type |-> "DistributionNotFound",
                             origin |-> "get_source_distributions",
                             tried |-> max_download_attempts ])
            /\ UNCHANGED << yielded, stats >>
    /\ UNCHANGED << config_vars, last_op, files, machine, builds, procs,
                    calls, backend, sources_directory, primary_packages, i,
                    package, archive, fault, result >>

\* The retry loop resuming the enumeration where the failed attempt left
\* it.
get_source_distributions_resuming(self) ==
    /\ pc[self] = "attempt"
    /\ IF i[self] < max_download_attempts + 1
       THEN /\ pc' = Set(pc, self, "unpack")
            /\ stats' = Count(self, "unpack")
            /\ UNCHANGED << yielded, error, dirs >>
       ELSE /\ Raise(self, [ type |-> "DistributionNotFound",
                             origin |-> "get_source_distributions",
                             tried |-> max_download_attempts ])
            /\ UNCHANGED << yielded, stats >>
    /\ UNCHANGED << config_vars, last_op, files, machine, builds, procs,
                    calls, backend, sources_directory, primary_packages, i,
                    package, archive, fault, result >>

\* The head of the retry loop: the next attempt calls
\* unpack_source_dists(), and after max_download_attempts attempts
\* DistributionNotFound is raised with the number of attempts.
get_source_distributions(self) ==
    /\ pc[self] = "attempt"
    /\ IF i[self] < max_download_attempts + 1
       THEN /\ pc' = Set(pc, self, "unpack")
            /\ yielded' = Set(yielded, self, { })
            /\ stats' = Count(self, "unpack")
            /\ UNCHANGED << error, dirs >>
       ELSE /\ Raise(self, [ type |-> "DistributionNotFound",
                             origin |-> "get_source_distributions",
                             tried |-> max_download_attempts ])
            /\ UNCHANGED << yielded, stats >>
    /\ UNCHANGED << config_vars, last_op, files, machine, builds, procs,
                    calls, backend, sources_directory, primary_packages, i,
                    package, archive, fault, result >>

\* The body of the loop of convert() for one package, given what the
\* look-up of its archive says (no archive: convert it).
ProcessPackage(self, requirement, found) ==
    /\ yielded' = Set(yielded, self, yielded[self] \cup { requirement })
    /\ primary_packages' =
           IF requirement.is_direct
           THEN Set(primary_packages, self,
                    Append(primary_packages[self], requirement))
           ELSE primary_packages
    /\ IF debian_architecture = Unsupported
       THEN /\ fault' = Set(fault, self, "debian_architecture")
            /\ Raise(self, HardError("debian_architecture"))
            /\ UNCHANGED << package, stats >>
       ELSE IF found
       THEN /\ stats' = Count(self, "skipped")
            /\ UNCHANGED << pc, package, fault, error, dirs >>
       ELSE /\ package' = Set(package, self, requirement)
            /\ pc' = Set(pc, self, "convert")
            /\ UNCHANGED << stats, fault, error, dirs >>
    /\ UNCHANGED << config_vars, last_op, files, machine, builds, procs,
                    calls, backend, sources_directory, i, archive, result >>

\* The loop body converting every package, converted before or not.
convert_package_always(self, requirement) ==
    /\ pc[self] = "unpack"
    /\ requirement \in backend[self].requirements \ yielded[self]
    /\ ProcessPackage(self, requirement, FALSE)

\* The loop body with the test of existing_archive inverted.
convert_package_inverted(self, requirement) ==
    /\ pc[self] = "unpack"
    /\ requirement \in backend[self].requirements \ yielded[self]
    /\ ProcessPackage(self, requirement, existing_archive(requirement) = { })

\* unpack_source_dists() gives the next requirement, the generator yields
\* its PackageToConvert and the body of the loop of convert() runs up to
\* the call of package.convert(): a package with an archive in the
\* repository is skipped.
convert_package(self, requirement) ==
    /\ pc[self] = "unpack"
    /\ requirement \in backend[self].requirements \ yielded[self]
    /\ ProcessPackage(self, requirement, existing_archive(requirement) # { })

\* package.convert() followed by a test of os.path.samefile() that takes
\* every archive to be in the repository directory: none is moved.
package_convert_not_moved(self, in_repository, ok) ==
    /\ pc[self] = "convert"
    /\ stats' = Count(self, "convert")
    /\ IF ~ ok
       THEN /\ fault' = Set(fault, self, "package.convert")
            /\ Raise(self, HardError("package.convert"))
            /\ UNCHANGED << files, builds, archive >>
       ELSE LET built == Artifact(debian_name(package[self]),
                                  debian_version(package[self]),
                                  debian_architecture, builds + 1)
            IN /\ builds' = builds + 1
               /\ IF in_repository
                  THEN /\ files' = [ files EXCEPT ![repository] =
                                       { a \in @ : Triple(a) # Triple(built) }
                                           \cup { built } ]
                       /\ pc' = Set(pc, self, "unpack")
                       /\ UNCHANGED archive
                  ELSE /\ pc' = Set(pc, self, "unpack")
                       /\ UNCHANGED << files, archive >>
               /\ UNCHANGED << fault, error, dirs >>
    /\ UNCHANGED << config_vars, last_op, machine, procs, calls, backend,
                    sources_directory, primary_packages, i, yielded, package,
                    result >>

\* package.convert(): the Packager builds the archive of the package, in
\* the repository directory or elsewhere, or fails. An archive built
\* elsewhere is to be moved.
package_convert(self, in_repository, ok) ==
    /\ pc[self] = "convert"
    /\ stats' = Count(self, "convert")
    /\ IF ~ ok
       THEN /\ fault' = Set(fault, self, "package.convert")
            /\ Raise(self, HardError("package.convert"))
            /\ UNCHANGED << files, builds, archive >>
       ELSE LET built == Artifact(debian_name(package[self]),
                                  debian_version(package[self]),
                                  debian_architecture, builds + 1)
            IN /\ builds' = builds + 1
               /\ IF in_repository
                  THEN /\ files' = [ files EXCEPT ![repository] =
                                       { a \in @ : Triple(a) # Triple(built) }
                                           \cup { built } ]
                       /\ pc' = Set(pc, self, "unpack")
                       /\ UNCHANGED archive
                  ELSE /\ archive' = Set(archive, self,
                                         [ directory |-> BuildDir,
                                           artifact |-> built ])
                       /\ pc' = Set(pc, self, "move")
                       /\ UNCHANGED files
               /\ UNCHANGED << fault, error, dirs >>
    /\ UNCHANGED << config_vars, last_op, machine, procs, calls, backend,
                    sources_directory, primary_packages, i, yielded, package,
                    result >>

\* shutil.move(archive, self.repository.directory): the move fails when
\* the directory already holds a file of that name, and may fail for a
\* reason of the file system's.
shutil_move(self, ok) ==
    /\ pc[self] = "move"
    /\ IF ~ ok \/ \E a \in files[repository] :
                      Triple(a) = Triple(archive[self].artifact)
       THEN /\ fault' = Set(fault, self, "shutil.move")
            /\ Raise(self, HardError("shutil.move"))
            /\ UNCHANGED << files, archive, stats >>
       ELSE /\ files' = [ files EXCEPT ![repository] =
                            @ \cup { archive[self].artifact } ]
            /\ archive' = Set(archive, self, NoArchive)
            /\ stats' = Count(self, "moved")
            /\ pc' = Set(pc, self, "unpack")
            /\ UNCHANGED << fault, error, dirs >>
    /\ UNCHANGED << config_vars, last_op, machine, builds, procs, calls,
                    backend, sources_directory, primary_packages, i, yielded,
                    package, result >>

\* The retry loop counting the attempts that are left in the attribute
\* max_download_attempts.
distribution_not_found_counting_down(self, ok) ==
    /\ pc[self] = "unpack"
    /\ stats[self].not_found < backend[self].k
    /\ stats' = [ stats EXCEPT ![self] =
                    [ @ EXCEPT !.not_found = @ + 1, !.download = @ + 1 ] ]
    /\ IF ok
       THEN /\ max_download_attempts' = max_download_attempts - 1
            /\ pc' = Set(pc, self, "attempt")
            /\ UNCHANGED << i, fault, error, dirs >>
       ELSE /\ fault' = Set(fault, self, "download_source_dists")
            /\ Raise(self, HardError("download_source_dists"))
            /\ UNCHANGED << i, max_download_attempts >>
    /\ UNCHANGED << alternatives, auto_install, install_prefix,
                    name_mapping, name_prefix, repository, scripts, last_op,
                    files, machine, builds, procs, calls, backend,
                    sources_directory, primary_packages, yielded, package,
                    archive, result >>

\* unpack_source_dists() raises DistributionNotFound (the backend has
\* not yet reported it k times): download_source_dists() is called, and
\* the loop goes on to its next attempt unless the download fails.
distribution_not_found(self, ok) ==
    /\ pc[self] = "unpack"
    /\ stats[self].not_found < backend[self].k
    /\ stats' = [ stats EXCEPT ![self] =
                    [ @ EXCEPT !.not_found = @ + 1, !.download = @ + 1 ] ]
    /\ IF ok
       THEN /\ i' = Set(i, self, i[self] + 1)
            /\ pc' = Set(pc, self, "attempt")
            /\ UNCHANGED << fault, error, dirs >>
       ELSE /\ fault' = Set(fault, self, "download_source_dists")
            /\ Raise(self, HardError("download_source_dists"))
            /\ UNCHANGED i
    /\ UNCHANGED << config_vars, last_op, files, machine, builds, procs,
                    calls, backend, sources_directory, primary_packages,
                    yielded, package, archive, result >>

\* The retry loop catching every exception of unpack_source_dists().
unpack_fails_caught(self) ==
    /\ pc[self] = "unpack"
    /\ fault' = Set(fault, self, "unpack_source_dists")
    /\ stats' = Count(self, "download")
    /\ i' = Set(i, self, i[self] + 1)
    /\ pc' = Set(pc, self, "attempt")
    /\ UNCHANGED << config_vars, last_op, env_vars, procs, calls, backend,
                    sources_directory, primary_packages, yielded, package,
                    archive, error, result >>

\* unpack_source_dists() raises another exception: it is not caught.
unpack_fails(self) ==
    /\ pc[self] = "unpack"
    /\ fault' = Set(fault, self, "unpack_source_dists")
    /\ Raise(self, HardError("unpack_source_dists"))
    /\ UNCHANGED << config_vars, last_op, files, machine, builds, procs,
                    calls, backend, sources_directory, primary_packages, i,
                    yielded, package, archive, stats, result >>

\* unpack_source_dists() has given every requirement: the generator
\* returns, convert() reports the packages asked for, sorted, and the
\* with statement removes the scratch directory.
convert_return(self) ==
    /\ pc[self] = "unpack"
    /\ yielded[self] = backend[self].requirements
    /\ stats[self].not_found = backend[self].k
    /\ result' = Set(result, self,
                     sorted(Dependencies(primary_packages[self])))
    /\ pc' = Set(pc, self, "returned")
    /\ dirs' = TemporaryDirectory_exit(sources_directory[self])
    /\ UNCHANGED << config_vars, last_op, files, machine, builds, procs,
                    calls, backend, sources_directory, primary_packages, i,
                    yielded, package, archive, stats, fault, error >>

(***************************************************************************)
(* The specification of conversions: a converter, configured, in an        *)
(* environment; set_repository() and convert() are called in any order.    *)
(***************************************************************************)

\* The state of the converters before their first call of convert().
InitConvert(converters) ==
    /\ procs = converters
    /\ pc = [ self \in converters |-> "idle" ]
    /\ calls = [ self \in converters |-> 0 ]
    /\ backend = [ self \in converters |-> [ requirements |-> { }, k |-> 0 ] ]
    /\ sources_directory = [ self \in converters |-> "" ]
    /\ primary_packages = [ self \in converters |-> << >> ]
    /\ i = [ self \in converters |-> 0 ]
    /\ yielded = [ self \in converters |-> { } ]
    /\ package = [ self \in converters |-> NoPackage ]
    /\ archive = [ self \in converters |-> NoArchive ]
    /\ stats = [ self \in converters |-> NoStats ]
    /\ fault = [ self \in converters |-> "none" ]
    /\ error = [ self \in converters |-> NoError ]
    /\ result = [ self \in converters |-> << >> ]

\* __init__(), after which the caller has set max_download_attempts and
\* registered overrides; the temporary directory may hold archives of
\* earlier runs.
Init ==
    /\ alternatives = { }
    /\ auto_install = FALSE
    /\ install_prefix = "/usr"
    /\ max_download_attempts \in
           (0 .. MaxAttempts) \cup { DefaultMaxDownloadAttempts }
    /\ name_mapping \in MappingSamples
    /\ name_prefix = s_python
    /\ repository = TempDir
    /\ scripts = << >>
    /\ last_op = [ op |-> "__init__", args |-> << >>, raised |-> "none" ]
    /\ dirs = { TempDir, RepoDir }
    /\ files \in { [ d \in { TempDir, RepoDir } |-> { } ],
                    [ d \in { TempDir, RepoDir } |->
                        IF d = TempDir THEN OldArchives ELSE { } ] }
    /\ machine \in Machines
    /\ builds = 0
    /\ InitConvert({ 1 })
    /\ loading = NoLoad

Next ==
    \/ \E directory \in DirectorySamples : set_repository(directory)
            /\ UNCHANGED loading
    \/ \E self \in procs, requirements \in SUBSET Requirements \ { { } },
          k \in 0 .. MaxK :
            convert(self, requirements, k)
            /\ UNCHANGED loading
    \/ \E self \in procs : get_source_distributions(self)
            /\ UNCHANGED loading
    \/ \E self \in procs, requirement \in Requirements :
            convert_package(self, requirement)
            /\ UNCHANGED loading
    \/ \E self \in procs, in_repository \in BOOLEAN, ok \in BOOLEAN :
            package_convert(self, in_repository, ok)
            /\ UNCHANGED loading
    \/ \E self \in procs, ok \in BOOLEAN : shutil_move(self, ok)
            /\ UNCHANGED loading
    \/ \E self \in procs, ok \in BOOLEAN : distribution_not_found(self, ok)
            /\ UNCHANGED loading
    \/ \E self \in procs : unpack_fails(self)
            /\ UNCHANGED loading
    \/ \E self \in procs : convert_return(self)
            /\ UNCHANGED loading

Spec == Init /\ [][Next]_vars

(***************************************************************************)
(* Properties of convert().                                                *)
(***************************************************************************)

Ended(self) == pc[self] \in { "returned", "raised" }

\* The call ended with the retry loop's own DistributionNotFound.
Exhausted(self) ==
    pc[self] = "raised" /\ error[self].type = "DistributionNotFound"

\* C1: for a fetch backend that reports `not found' exactly k times and
\* then succeeds, with no other failure: if k < max_download_attempts,
\* convert succeeds and download_source_dists has been called exactly k
\* times; if k >= max_download_attempts, convert fails with
\* DistributionNotFound reporting max_download_attempts attempts.
C1_RetryLoop ==
    \A self \in procs :
        /\ pc[self] = "returned" =>
              /\ backend[self].k < max_download_attempts
              /\ stats[self].download = backend[self].k
        /\ Exhausted(self) =>
              /\ backend[self].k >= max_download_attempts
              /\ error[self].tried = max_download_attempts
        /\ Ended(self) /\ fault[self] = "none" =>
              /\ pc[self] = "returned" \/ Exhausted(self)
              /\ backend[self].k < max_download_attempts
                    <=> pc[self] = "returned"

\* A backend that reported `not found' twice and then succeeded, under
\* the default of ten attempts: the call returned after two downloads.
C1_Witness ==
    /\ pc[1] = "returned"
    /\ backend[1].k = 2
    /\ max_download_attempts = DefaultMaxDownloadAttempts
    /\ stats[1].download = 2
    /\ stats[1].unpack = 3

\* C2: the Packager is never invoked for a package whose (target name,
\* target version, architecture) has an archive in the repository
\* directory when the package is processed: such a package is skipped.
C2_ConvertedPackagesAreSkipped ==
    [][ \A self \in procs :
          /\ stats'[self].convert # stats[self].convert =>
                existing_archive(package[self]) = { }
          /\ \A requirement \in Requirements :
                ( /\ pc[self] = "unpack"
                  /\ requirement \notin yielded[self]
                  /\ yielded'[self] = yielded[self] \cup { requirement }
                  /\ debian_architecture # Unsupported
                  /\ existing_archive(requirement) # { } )
                =>
                ( /\ pc'[self] = "unpack"
                  /\ stats'[self].skipped = stats[self].skipped + 1
                  /\ stats'[self].convert = stats[self].convert )
      ]_vars

\* A call that found python-a 1 in the repository, skipped it, left the
\* archive as it was and had the Packager build another package.
C2_Witness ==
    /\ pc[1] = "returned"
    /\ req_a \in yielded[1]
    /\ Artifact(s_python_a, << "1" >>, "amd64", 0) \in files[repository]
    /\ stats[1].skipped > 0
    /\ stats[1].convert > 0

\* How many times x occurs in a list.
CountIn(list, x) == Cardinality({ n \in DOMAIN list : list[n] = x })

\* The requirements of a call the caller asked for.
Direct(self) == { r \in backend[self].requirements : r.is_direct }

\* C3: when convert returns, its result holds exactly one descriptor
\* `<target name> (=<target version>)' for each directly requested
\* package, none for the other packages, in ascending order, however
\* many retries occurred.
C3_OneDescriptorPerDirectPackage ==
    \A self \in procs :
        pc[self] = "returned" =>
            /\ \A r \in Direct(self) :
                  CountIn(result[self], Dependency(r)) =
                      Cardinality({ q \in Direct(self) :
                                      Dependency(q) = Dependency(r) })
            /\ \A n \in DOMAIN result[self] :
                  \E r \in Direct(self) : result[self][n] = Dependency(r)
            /\ \A n \in 1 .. Len(result[self]) - 1 :
                  StrLeq(result[self][n], result[self][n + 1])

\* C4: the scratch directory of a call of convert does not exist once
\* the call has ended, however it ended (and it exists while the call
\* runs).
C4_ScratchDirectoryRemoved ==
    \A self \in procs :
        /\ Ended(self) => ~ isdir(sources_directory[self])
        /\ pc[self] \in { "attempt", "unpack", "convert", "move" } =>
              isdir(sources_directory[self])

\* A call that ended mid-stream with an error of the Packager, after an
\* earlier archive was moved into the repository.
C4_Witness ==
    /\ pc[1] = "raised"
    /\ fault[1] = "package.convert"
    /\ stats[1].moved > 0
    /\ sources_directory[1] = ScratchDirs[1]
    /\ ~ isdir(ScratchDirs[1])

\* C5: an error of a collaborator other than `not found' from the
\* resolver ends convert at once with that error: convert raises it,
\* returns no descriptors, and afterwards calls no collaborator again.
C5_HardErrorsPropagate ==
    [][ \A self \in procs :
          /\ fault'[self] # "none" =>
                /\ pc'[self] = "raised"
                /\ error'[self] = HardError(fault'[self])
                /\ result'[self] = << >>
          /\ fault[self] # "none" =>
                /\ stats'[self] = stats[self]
                /\ files' = files
      ]_vars

\* The resolver failed with another error on the second attempt, after a
\* package had been converted.
C5_Witness ==
    /\ fault[1] = "unpack_source_dists"
    /\ pc[1] = "raised"
    /\ stats[1].unpack = 2
    /\ stats[1].download = 1
    /\ stats[1].convert > 0

\* C6: set_repository called with a path that is no directory raises
\* ValueError in that call, before any fetch, download or Packager step,
\* and leaves the configured repository unchanged.
C6_SetRepositoryValidates ==
    [][ ( /\ Configuring
          /\ Configuring'
          /\ last_op'.op = "set_repository"
          /\ ~ isdir(last_op'.args[1]) )
        =>
        ( /\ last_op'.raised = "ValueError"
          /\ repository' = repository
          /\ UNCHANGED << env_vars, convert_vars >> )
      ]_vars

\* set_repository was called with a missing directory after the
\* repository had been set to another directory than the default.
C6_Witness ==
    /\ last_op = [ op |-> "set_repository", args |-> << MissingDir >>,
                   raised |-> "ValueError" ]
    /\ repository = RepoDir
    /\ Configuring

\* No directory holds two archives of one (name, version, architecture).
OnePerTriple ==
    \A d \in DOMAIN files :
        \A a, b \in files[d] : Triple(a) = Triple(b) => a = b

\* C7: the repository directory is append-only under convert: an archive
\* in it stays in it, unmodified, in every later state of any call, so
\* there is never more than one archive for a (name, version,
\* architecture) and an existing one is never replaced.
C7_AppendOnly ==
    [][ /\ \A d \in DOMAIN files : files[d] \subseteq files'[d]
        /\ OnePerTriple
        /\ OnePerTriple'
      ]_vars

\* A failing call that added archives to a repository that held some.
C7_Witness ==
    /\ pc[1] = "raised"
    /\ OldArchives \subseteq files[repository]
    /\ \E a \in files[repository] : a.build > 1

(***************************************************************************)
(* The specification of the naming configuration: a converter is built     *)
(* and its naming methods are called in any order.                         *)
(***************************************************************************)

\* __init__(), with the repository in the system's temporary directory.
InitConfig ==
    /\ alternatives = { }
    /\ auto_install = FALSE
    /\ install_prefix = "/usr"
    /\ max_download_attempts = DefaultMaxDownloadAttempts
    /\ name_mapping = << >>
    /\ name_prefix = s_python
    /\ repository = TempDir
    /\ scripts = << >>

InitNames ==
    /\ InitConfig
    /\ last_op = [ op |-> "__init__", args |-> << >>, raised |-> "none" ]
    /\ dirs = { TempDir, RepoDir }
    /\ files = [ d \in { TempDir, RepoDir } |-> { } ]
    /\ machine = "x86_64"
    /\ builds = 0
    /\ InitConvert({ 1 })
    /\ loading = NoLoad

NextNames ==
    \/ \E prefix \in PrefixSamples : set_name_prefix(prefix)
            /\ UNCHANGED loading
    \/ \E p \in PythonNameSamples, d \in DebianNameSamples :
            rename_package(p, d)
            /\ UNCHANGED loading

SpecNames == InitNames /\ [][NextNames]_vars

(***************************************************************************)
(* Properties of the name transformation.                                  *)
(***************************************************************************)

\* No override is registered for a name.
NoOverride(python_package_name) ==
    Falsy(Get(name_mapping, lower(python_package_name)))

\* No word is identical to the word immediately before it.
NoRepeatingWords(words) ==
    \A n \in 1 .. Len(words) - 1 : words[n] # words[n + 1]

\* The last call was rename_package() and it returned.
Renamed ==
    last_op.op = "rename_package" /\ last_op.raised = "none"

\* C8: a registered override always wins. Right after rename_package(p, d)
\* with non-empty p and d, transform_name(q) is normalize(d) for every q
\* equal to p but for the case of its letters, whatever the name prefix is.
C8_OverrideWins ==
    Renamed =>
        \A q \in CaseVariants(last_op.args[1]) :
            transform_name(q) = normalize_package_name(last_op.args[2])

\* rename("foo", "custom-foo") under the prefix py2deb: transform("FOO") is
\* the override and does not carry the prefix.
C8_Witness ==
    /\ Renamed
    /\ last_op.args = << s_foo, s_custom_foo >>
    /\ name_prefix = s_py2deb
    /\ transform_name(s_FOO) = s_custom_foo
    /\ ~ StartsWith(transform_name(s_FOO), s_py2deb)

\* C9 as stated: with no override registered, transform_name(name) starts
\* with normalize(prefix) for all non-empty prefix and name, and a leading
\* word of the name equal to the last word of the prefix is not doubled.
C9_StartsWithPrefix ==
    \A name \in NameUniverse \ { << >> } :
        NoOverride(name) =>
            /\ StartsWith(transform_name(name),
                          normalize_package_name(name_prefix))
            /\ NoRepeatingWords(split(transform_name(name), Sep))

\* The words of the normalized prefix, repeating words compacted.
CompactedPrefix ==
    join(Sep, compact_repeating_words(
                  split(normalize_package_name(name_prefix), Sep)))

\* C9 as amended: with no override registered and a prefix whose normalized
\* form does not end in the separator, transform_name(name) starts with the
\* normalized prefix once the repeating words inside the prefix itself are
\* compacted (with normalize(prefix) itself when it has none); and the
\* result never holds a word twice in a row: the prefix python and the
\* name Flask give python-flask, the prefix py2deb and the name py2deb
\* give py2deb.
C9_StartsWithCompactedPrefix ==
    /\ \A name \in NameUniverse \ { << >> } :
          NoOverride(name) =>
              /\ normalize_package_name(name_prefix)
                     [Len(normalize_package_name(name_prefix))] # Sep
                   => StartsWith(transform_name(name), CompactedPrefix)
              /\ NoRepeatingWords(
                     split(normalize_package_name(name_prefix), Sep))
                   => CompactedPrefix = normalize_package_name(name_prefix)
              /\ NoRepeatingWords(split(transform_name(name), Sep))
    /\ name_prefix = s_python /\ NoOverride(s_Flask)
          => transform_name(s_Flask)
                 = << "p", "y", "t", "h", "o", "n", "-",
                      "f", "l", "a", "s", "k" >>
    /\ name_prefix = s_py2deb /\ NoOverride(s_py2deb)
          => transform_name(s_py2deb) = s_py2deb

\* The prefix py2deb and the name py2deb, without an override: the
\* duplicate word is dropped.
C9_Witness ==
    /\ name_prefix = s_py2deb
    /\ NoOverride(s_py2deb)
    /\ transform_name(s_py2deb) = s_py2deb
    /\ normalize_package_name(name_prefix \o << Sep >> \o s_py2deb)
           # s_py2deb

\* C10: the output of transform_name is in canonical form, on the override
\* path and on the prefix path: normalizing it again changes nothing.
C10_Canonical ==
    \A x \in NameUniverse :
        normalize_package_name(transform_name(x)) = transform_name(x)

\* An override that is not in canonical form is registered (Custom_Foo,
\* kept as custom_foo) and transform_name returns its canonical form; a
\* name without an override goes through the prefix path.
C10_Witness ==
    /\ Get(name_mapping, s_foo) = lower(s_Custom_Foo)
    /\ transform_name(s_foo) = s_custom_foo
    /\ transform_name(s_foo) # Get(name_mapping, s_foo)
    /\ NoOverride(s_a)
    /\ transform_name(s_a) = name_prefix \o << Sep >> \o s_a

(***************************************************************************)
(* The specification of two runs: two converters of one configuration     *)
(* that share the repository directory.  The second call of convert is     *)
(* made once the first has returned, for the same requirements; each call  *)
(* has a resolver of its own, which enumerates the packages in an order of *)
(* its own and reports `not found' a number of times of its own.           *)
(***************************************************************************)

\* The requirement sets of the two runs.
RunRequirementSets == { { req_a }, { req_a, req_b }, { req_b, req_c } }

InitRuns ==
    /\ InitConfig
    /\ last_op = [ op |-> "__init__", args |-> << >>, raised |-> "none" ]
    /\ dirs = { TempDir, RepoDir }
    /\ files \in { [ d \in { TempDir, RepoDir } |-> { } ],
                    [ d \in { TempDir, RepoDir } |->
                        IF d = TempDir THEN OldArchives ELSE { } ] }
    /\ machine = "x86_64"
    /\ builds = 0
    /\ InitConvert({ 1, 2 })
    /\ loading = NoLoad

NextRuns ==
    \/ \E requirements \in RunRequirementSets, k \in 0 .. MaxK :
            convert(1, requirements, k)
            /\ UNCHANGED loading
    \/ \E k \in 0 .. MaxK :
            /\ pc[1] = "returned"
            /\ convert(2, backend[1].requirements, k)
            /\ UNCHANGED loading
    \/ \E self \in procs : get_source_distributions(self)
            /\ UNCHANGED loading
    \/ \E self \in procs, requirement \in Requirements :
            convert_package(self, requirement)
            /\ UNCHANGED loading
    \/ \E self \in procs, in_repository \in BOOLEAN, ok \in BOOLEAN :
            package_convert(self, in_repository, ok)
            /\ UNCHANGED loading
    \/ \E self \in procs, ok \in BOOLEAN : shutil_move(self, ok)
            /\ UNCHANGED loading
    \/ \E self \in procs, ok \in BOOLEAN : distribution_not_found(self, ok)
            /\ UNCHANGED loading
    \/ \E self \in procs : unpack_fails(self)
            /\ UNCHANGED loading
    \/ \E self \in procs : convert_return(self)
            /\ UNCHANGED loading

SpecRuns == InitRuns /\ [][NextRuns]_vars

\* How many packages the resolver of a call has yielded, over all of its
\* attempts: each one was skipped or passed to the Packager.
Processed(self) == stats[self].skipped + stats[self].convert

\* C11: two runs of one configuration whose resolvers yield the same set
\* of packages, in whatever orders (on the first attempt or on a retry),
\* return the same descriptors.  (The runs compared here also agree in
\* the number of `not found' reports and in the number of packages
\* yielded over all attempts, so that they differ in the order only.)
C11_OrderIndependent ==
    ( /\ pc[1] = "returned"
      /\ pc[2] = "returned"
      /\ backend[2] = backend[1]
      /\ Processed(2) = Processed(1) )
    => result[2] = result[1]

(***************************************************************************)
(* The specification of concurrent conversions: two converters of one     *)
(* configuration run convert() at the same time against one repository     *)
(* directory.  Their steps interleave in any order; nothing in convert()   *)
(* takes a lock.                                                           *)
(***************************************************************************)

\* The requirement sets of the concurrent calls, and how many times their
\* resolvers report `not found'.
ConcurrentRequirementSets == { { req_a }, { req_a, req_c } }

ConcurrentNotFound == { 0, 1 }

InitConcurrent ==
    /\ InitConfig
    /\ last_op = [ op |-> "__init__", args |-> << >>, raised |-> "none" ]
    /\ dirs = { TempDir, RepoDir }
    /\ files = [ d \in { TempDir, RepoDir } |-> { } ]
    /\ machine = "x86_64"
    /\ builds = 0
    /\ InitConvert({ 1, 2 })
    /\ loading = NoLoad

NextConcurrent ==
    \/ \E self \in procs, requirements \in ConcurrentRequirementSets,
          k \in ConcurrentNotFound :
            convert(self, requirements, k)
            /\ UNCHANGED loading
    \/ \E self \in procs : get_source_distributions(self)
            /\ UNCHANGED loading
    \/ \E self \in procs, requirement \in Requirements :
            convert_package(self, requirement)
            /\ UNCHANGED loading
    \/ \E self \in procs, in_repository \in BOOLEAN, ok \in BOOLEAN :
            package_convert(self, in_repository, ok)
            /\ UNCHANGED loading
    \/ \E self \in procs, ok \in BOOLEAN : shutil_move(self, ok)
            /\ UNCHANGED loading
    \/ \E self \in procs, ok \in BOOLEAN : distribution_not_found(self, ok)
            /\ UNCHANGED loading
    \/ \E self \in procs : unpack_fails(self)
            /\ UNCHANGED loading
    \/ \E self \in procs : convert_return(self)
            /\ UNCHANGED loading

SpecConcurrent == InitConcurrent /\ [][NextConcurrent]_vars

\* The repository holds an archive for the requirement that a converter
\* other than self had the Packager build.
PlacedByOther(self, requirement) ==
    \E other \in procs \ { self } :
        /\ stats[other].convert > 0
        /\ stats[self].convert = 0
        /\ \E a \in existing_archive(requirement) : a.build > 0

\* C12: of two converters that run at once on one repository directory,
\* the one that looks a (name, version, architecture) up after the other
\* has placed its archive skips the Packager.  (That both may miss and
\* both invoke the Packager for one triple, for want of a lock, is the
\* state of C12_Witness.)
C12_LookupAfterPlacementSkips ==
    [][ \A self \in procs, requirement \in Requirements :
          ( /\ pc[self] = "unpack"
            /\ requirement \notin yielded[self]
            /\ yielded'[self] = yielded[self] \cup { requirement }
            /\ PlacedByOther(self, requirement) )
          =>
          ( /\ pc'[self] = "unpack"
            /\ stats'[self].skipped = stats[self].skipped + 1
            /\ stats'[self].convert = stats[self].convert
            /\ files' = files )
      ]_vars

\* Both converters looked python-a 1 up before either had placed an
\* archive, both missed, and both had the Packager build it.
C12_Witness ==
    /\ package[1] = req_a
    /\ package[2] = req_a
    /\ stats[1].convert = 1
    /\ stats[2].convert = 1
    /\ pc[1] \notin { "idle", "convert" }
    /\ pc[2] \notin { "idle", "convert" }
    /\ builds = 2

(***************************************************************************)
(* Properties of the retry loop and of the repository under convert().     *)
(***************************************************************************)

\* C13: every `not found' report of the resolver is answered by one
\* forced download pass, and every download pass is followed by a retry
\* of the enumeration: once the call has ended, there has been an unpack
\* attempt after each download pass that did not itself fail.
C13_DownloadThenRetry ==
    \A self \in procs :
        /\ stats[self].download = stats[self].not_found
        /\ ( Ended(self) /\ fault[self] # "download_source_dists" ) =>
              \/ stats[self].download = 0
              \/ stats[self].unpack > stats[self].download

\* The (name, version, architecture) triples of the requirements of a
\* call.
Triples(self) ==
    { << debian_name(r), debian_version(r), debian_architecture >> :
        r \in backend[self].requirements }

\* The repository holds an archive of the requirement that the Packager
\* built (and not one that was there before the converter was made).
ConvertedEarlier(requirement) ==
    \E a \in existing_archive(requirement) : a.build > 0

\* C14: a retry restarts the enumeration from scratch: an attempt that
\* follows a `not found' report yields the packages of the earlier
\* attempt again, from the first one; a package converted in the earlier
\* attempt is then found in the repository and skipped, so that within
\* one call the Packager is invoked at most once for each (name, version,
\* architecture).
C14_RetriesRestart ==
    [][ \A self \in procs :
          /\ ( pc[self] = "attempt" /\ pc'[self] = "unpack" ) =>
                yielded'[self] = { }
          /\ \A requirement \in Requirements :
                ( /\ pc[self] = "unpack"
                  /\ requirement \notin yielded[self]
                  /\ yielded'[self] = yielded[self] \cup { requirement }
                  /\ ConvertedEarlier(requirement) )
                =>
                ( /\ pc'[self] = "unpack"
                  /\ stats'[self].skipped = stats[self].skipped + 1
                  /\ stats'[self].convert = stats[self].convert )
          /\ pc[self] # "idle" =>
                stats'[self].convert <= Cardinality(Triples(self))
      ]_vars

\* The first attempt converted python-a 1 and python-c 2 and ended with
\* `not found'; the second attempt yielded both again and skipped them.
C14_Witness ==
    /\ pc[1] = "returned"
    /\ backend[1] = [ requirements |-> { req_a, req_c }, k |-> 1 ]
    /\ stats[1].unpack = 2
    /\ stats[1].convert = 2
    /\ stats[1].skipped = 2
    /\ \A r \in { req_a, req_c } : ConvertedEarlier(r)

\* C15: when convert returns, every package the fetcher has yielded has
\* an archive in the configured repository directory: an archive the
\* Packager built elsewhere has been moved into it, one built inside it
\* is where it was built, and no archive is left waiting to be moved.
C15_ArtifactsInRepository ==
    \A self \in procs :
        pc[self] = "returned" =>
            /\ yielded[self] = backend[self].requirements
            /\ \A r \in yielded[self] : existing_archive(r) # { }
            /\ archive[self] = NoArchive
            /\ stats[self].moved <= stats[self].convert

\* A call that returned after one archive was built in the repository
\* directory and another was built elsewhere and moved.
C15_Witness ==
    /\ pc[1] = "returned"
    /\ repository = RepoDir
    /\ stats[1].convert = 2
    /\ stats[1].moved = 1
    /\ Cardinality(files[RepoDir]) = 2

(***************************************************************************)
(* Properties of the name transformation: repeating words.                 *)
(***************************************************************************)

\* C16 as stated: for every source name and every naming configuration,
\* with or without an override, the name transform_name returns, split
\* on the separator, holds no word identical to the word before it.
C16_NoRepeatingWords ==
    \A x \in NameUniverse :
        NoRepeatingWords(split(transform_name(x), Sep))

\* C16 as amended: for every source name that has no override, the name
\* transform_name returns holds no word identical to the word before it;
\* for a name that has an override the result is the override normalized
\* and no more, so that it repeats the words the override repeats.
C16_NoRepeatingWordsWithoutOverride ==
    \A x \in NameUniverse :
        /\ NoOverride(x) =>
              NoRepeatingWords(split(transform_name(x), Sep))
        /\ ~ NoOverride(x) =>
              /\ transform_name(x) =
                     normalize_package_name(Get(name_mapping, lower(x)))
              /\ NoRepeatingWords(split(transform_name(x), Sep))
                     <=> NoRepeatingWords(
                             split(normalize_package_name(
                                       Get(name_mapping, lower(x))), Sep))

\* The override a-a is registered for foo and is returned with its word
\* twice, while under the prefix a the name a, which has no override,
\* becomes a and not a-a.
C16_Witness ==
    /\ Get(name_mapping, s_foo) = s_a_a
    /\ transform_name(s_FOO) = s_a_a
    /\ ~ NoRepeatingWords(split(transform_name(s_FOO), Sep))
    /\ name_prefix = s_a
    /\ NoOverride(s_a)
    /\ transform_name(s_a) = s_a

(***************************************************************************)
(* The other configuration methods.  Path names and shell commands are     *)
(* strings of the model; the empty one is "".                              *)
(***************************************************************************)

\* "not x" for a path name or a shell command.
Empty(x) == x = ""

\* set_install_prefix(directory)
set_install_prefix(directory) ==
    /\ IF Empty(directory)
       THEN /\ last_op' = [ op |-> "set_install_prefix",
                            args |-> << directory >>,
                            raised |-> "ValueError" ]
            /\ UNCHANGED install_prefix
       ELSE /\ install_prefix' = directory
            /\ last_op' = [ op |-> "set_install_prefix",
                            args |-> << directory >>, raised |-> "none" ]
    /\ UNCHANGED << alternatives, auto_install, max_download_attempts,
                    name_mapping, name_prefix, repository, scripts,
                    env_vars, convert_vars >>

\* set_auto_install(enabled)
set_auto_install(enabled) ==
    /\ auto_install' = enabled
    /\ last_op' = [ op |-> "set_auto_install", args |-> << enabled >>,
                    raised |-> "none" ]
    /\ UNCHANGED << alternatives, install_prefix, max_download_attempts,
                    name_mapping, name_prefix, repository, scripts,
                    env_vars, convert_vars >>

\* install_alternative() without the check of the path.
install_alternative_path_unchecked(link, path) ==
    /\ IF Empty(link)
       THEN /\ last_op' = [ op |-> "install_alternative",
                            args |-> << link, path >>,
                            raised |-> "ValueError" ]
            /\ UNCHANGED alternatives
       ELSE /\ alternatives' = alternatives \cup { << link, path >> }
            /\ last_op' = [ op |-> "install_alternative",
                            args |-> << link, path >>,
                            raised |-> IF Empty(path) THEN "ValueError"
                                       ELSE "none" ]
    /\ UNCHANGED << auto_install, install_prefix, max_download_attempts,
                    name_mapping, name_prefix, repository, scripts,
                    env_vars, convert_vars >>

\* install_alternative(link, path)
install_alternative(link, path) ==
    /\ IF Empty(link) \/ Empty(path)
       THEN /\ last_op' = [ op |-> "install_alternative",
                            args |-> << link, path >>,
                            raised |-> "ValueError" ]
            /\ UNCHANGED alternatives
       ELSE /\ alternatives' = alternatives \cup { << link, path >> }
            /\ last_op' = [ op |-> "install_alternative",
                            args |-> << link, path >>, raised |-> "none" ]
    /\ UNCHANGED << auto_install, install_prefix, max_download_attempts,
                    name_mapping, name_prefix, repository, scripts,
                    env_vars, convert_vars >>

\* set_conversion_command(python_package_name, command)
set_conversion_command(python_package_name, command) ==
    /\ IF Falsy(python_package_name) \/ Empty(command)
       THEN /\ last_op' = [ op |-> "set_conversion_command",
                            args |-> << python_package_name, command >>,
                            raised |-> "ValueError" ]
            /\ UNCHANGED scripts
       ELSE /\ scripts' = Put(scripts, lower(python_package_name), command)
            /\ last_op' = [ op |-> "set_conversion_command",
                            args |-> << python_package_name, command >>,
                            raised |-> "none" ]
    /\ UNCHANGED << alternatives, auto_install, install_prefix,
                    max_download_attempts, name_mapping, name_prefix,
                    repository, env_vars, convert_vars >>

(***************************************************************************)
(* load_configuration()                                                    *)
(***************************************************************************)

\* The values the configuration methods are called with.
InstallPrefixSamples == { "/usr/lib/py2deb", "" }
LinkSamples == { "/usr/bin/py2deb", "" }
PathSamples == { "/usr/lib/py2deb/bin/py2deb", "" }
CommandSamples == { "rm -rf tests", "" }

\* What RawConfigParser makes of the configuration files on disk: for
\* each file that can be read, the options of the section py2deb (none or
\* one value each), the items of the section alternatives and the
\* sections package:<name>, in the order of the file.
NoOptions ==
    [ repository |-> << >>, name_prefix |-> << >>, install_prefix |-> << >>,
      auto_install |-> << >>, alternatives |-> << >>, packages |-> << >> ]

ConfigurationFiles ==
    [ file \in { "py2deb.ini", "no-install-prefix.ini", "no-repository.ini",
                 "no-script.ini", "empty.ini" } |->
        CASE file = "py2deb.ini" ->
               [ NoOptions EXCEPT
                   !.repository = << RepoDir >>,
                   !.name_prefix = << s_py2deb >>,
                   !.install_prefix = << "/usr/lib/py2deb" >>,
                   !.auto_install = << TRUE >>,
                   !.alternatives =
                       << << "/usr/bin/py2deb",
                             "/usr/lib/py2deb/bin/py2deb" >> >>,
                   !.packages =
                       << [ package |-> s_Flask,
                            no_name_prefix |-> << TRUE >>,
                            rename |-> << >>,
                            script |-> << "rm -rf tests" >> ] >> ]
          [] file = "no-install-prefix.ini" ->
               [ NoOptions EXCEPT
                   !.name_prefix = << s_py2deb >>,
                   !.install_prefix = << "" >>,
                   !.auto_install = << TRUE >>,
                   !.packages =
                       << [ package |-> s_FOO,
                            no_name_prefix |-> << FALSE >>,
                            rename |-> << s_Custom_Foo >>,
                            script |-> << >> ] >> ]
          [] file = "no-repository.ini" ->
               [ NoOptions EXCEPT
                   !.repository = << MissingDir >>,
                   !.name_prefix = << s_a >>,
                   !.auto_install = << TRUE >> ]
          [] file = "no-script.ini" ->
               [ NoOptions EXCEPT
                   !.auto_install = << TRUE >>,
                   !.alternatives =
                       << << "/usr/bin/py2deb",
                             "/usr/lib/py2deb/bin/py2deb" >> >>,
                   !.packages =
                       << [ package |-> s_FOO,
                            no_name_prefix |-> << >>,
                            rename |-> << s_Custom_Foo >>,
                            script |-> << "" >> ],
                          [ package |-> s_Flask,
                            no_name_prefix |-> << TRUE >>,
                            rename |-> << >>,
                            script |-> << >> ] >> ]
          [] OTHER -> NoOptions ]

\* The names load_configuration() is called with: the files above and
\* one that cannot be read.
ConfigurationFileSamples == DOMAIN ConfigurationFiles \cup { "missing.ini" }

\* parser.has_option(): the call of a configuration method with the value
\* of the option, when the file has the option.
Option(values, op) ==
    IF Len(values) = 0 THEN << >>
    ELSE << [ op |-> op, args |-> << values[1] >> ] >>

\* for link, path in parser.items('alternatives')
RECURSIVE Alternatives(_)
Alternatives(items) ==
    IF Len(items) = 0 THEN << >>
    ELSE << [ op |-> "install_alternative", args |-> Head(items) ] >>
             \o Alternatives(Tail(items))

\* The calls for one section package:<name>.
PackageSection(section) ==
    ( IF Len(section.no_name_prefix) = 1 /\ section.no_name_prefix[1]
      THEN << [ op |-> "rename_package",
                args |-> << section.package, section.package >> ] >>
      ELSE << >> )
    \o ( IF Len(section.rename) = 1
         THEN << [ op |-> "rename_package",
                   args |-> << section.package, section.rename[1] >> ] >>
         ELSE << >> )
    \o ( IF Len(section.script) = 1
         THEN << [ op |-> "set_conversion_command",
                   args |-> << section.package, section.script[1] >> ] >>
         ELSE << >> )

\* for section in parser.sections()
RECURSIVE PackageSections(_)
PackageSections(sections) ==
    IF Len(sections) = 0 THEN << >>
    ELSE PackageSection(Head(sections)) \o PackageSections(Tail(sections))

\* The settings with the name prefix applied before the repository.
Settings_name_prefix_first(parser) ==
    Option(parser.name_prefix, "set_name_prefix")
    \o Option(parser.repository, "set_repository")
    \o Option(parser.install_prefix, "set_install_prefix")
    \o Option(parser.auto_install, "set_auto_install")
    \o Alternatives(parser.alternatives)
    \o PackageSections(parser.packages)

\* The calls of the configuration methods load_configuration() makes for
\* a file it has read, in the order in which it makes them.
Settings(parser) ==
    Option(parser.repository, "set_repository")
    \o Option(parser.name_prefix, "set_name_prefix")
    \o Option(parser.install_prefix, "set_install_prefix")
    \o Option(parser.auto_install, "set_auto_install")
    \o Alternatives(parser.alternatives)
    \o PackageSections(parser.packages)

\* load_configuration(configuration_file), up to its first call of a
\* configuration method: a file that cannot be read is an Exception;
\* a file without settings is done with.
load_configuration(configuration_file) ==
    /\ Configuring
    /\ loading.state # "loading"
    /\ IF configuration_file \notin DOMAIN ConfigurationFiles
       THEN /\ last_op' = [ op |-> "load_configuration",
                            args |-> << configuration_file >>,
                            raised |-> "Exception" ]
            /\ loading' = [ state |-> "raised", file |-> configuration_file,
                            pending |-> << >> ]
       ELSE LET settings == Settings(ConfigurationFiles[configuration_file])
            IN /\ last_op' = [ op |-> "load_configuration",
                               args |-> << configuration_file >>,
                               raised |-> "none" ]
               /\ loading' = [ state |-> IF Len(settings) = 0
                                         THEN "returned" ELSE "loading",
                               file |-> configuration_file,
                               pending |-> settings ]
    /\ UNCHANGED << config_vars, env_vars, convert_vars >>

\* The call of the configuration method a setting stands for.
Call(setting) ==
    \/ /\ setting.op = "set_repository"
       /\ set_repository(setting.args[1])
    \/ /\ setting.op = "set_name_prefix"
       /\ set_name_prefix(setting.args[1])
    \/ /\ setting.op = "set_install_prefix"
       /\ set_install_prefix(setting.args[1])
    \/ /\ setting.op = "set_auto_install"
       /\ set_auto_install(setting.args[1])
    \/ /\ setting.op = "install_alternative"
       /\ install_alternative(setting.args[1], setting.args[2])
    \/ /\ setting.op = "rename_package"
       /\ rename_package(setting.args[1], setting.args[2])
    \/ /\ setting.op = "set_conversion_command"
       /\ set_conversion_command(setting.args[1], setting.args[2])

\* The next step of load_configuration(): the configuration method of the
\* next setting is called with its value; when the method raises, so does
\* load_configuration(), and when no setting is left it returns.
apply_setting ==
    /\ loading.state = "loading"
    /\ Call(Head(loading.pending))
    /\ loading' =
           IF last_op'.raised # "none"
           THEN [ loading EXCEPT !.state = "raised" ]
           ELSE [ loading EXCEPT
                    !.pending = Tail(@),
                    !.state = IF Len(loading.pending) = 1
                              THEN "returned" ELSE "loading" ]

(***************************************************************************)
(* The specification of the configuration: a converter is built and its    *)
(* configuration methods are called in any order, load_configuration()     *)
(* among them; no other method is called while load_configuration() runs.  *)
(***************************************************************************)

InitConfiguration ==
    /\ InitConfig
    /\ last_op = [ op |-> "__init__", args |-> << >>, raised |-> "none" ]
    /\ dirs = { TempDir, RepoDir }
    /\ files = [ d \in { TempDir, RepoDir } |-> { } ]
    /\ machine = "x86_64"
    /\ builds = 0
    /\ InitConvert({ 1 })
    /\ loading = NoLoad

\* The caller is not inside load_configuration().
Calling == loading.state # "loading" /\ UNCHANGED loading

NextConfiguration ==
    \/ \E directory \in DirectorySamples :
            Calling /\ set_repository(directory)
    \/ \E prefix \in { s_py2deb, << >> } :
            Calling /\ set_name_prefix(prefix)
    \/ \E p \in { s_FOO, << >> }, d \in { s_Custom_Foo, << >> } :
            Calling /\ rename_package(p, d)
    \/ \E directory \in InstallPrefixSamples :
            Calling /\ set_install_prefix(directory)
    \/ \E enabled \in BOOLEAN :
            Calling /\ set_auto_install(enabled)
    \/ \E link \in LinkSamples, path \in PathSamples :
            Calling /\ install_alternative(link, path)
    \/ \E p \in { s_FOO, << >> }, command \in CommandSamples :
            Calling /\ set_conversion_command(p, command)
    \/ \E configuration_file \in ConfigurationFileSamples :
            load_configuration(configuration_file)
    \/ apply_setting

SpecConfiguration == InitConfiguration /\ [][NextConfiguration]_vars

(***************************************************************************)
(* Properties of the configuration methods.                                *)
(***************************************************************************)

\* A call of a configuration method with an empty value.
EmptyValue(call) ==
    \/ /\ call.op = "set_name_prefix"
       /\ Falsy(call.args[1])
    \/ /\ call.op = "rename_package"
       /\ Falsy(call.args[1]) \/ Falsy(call.args[2])
    \/ /\ call.op = "set_install_prefix"
       /\ Empty(call.args[1])
    \/ /\ call.op = "install_alternative"
       /\ Empty(call.args[1]) \/ Empty(call.args[2])
    \/ /\ call.op = "set_conversion_command"
       /\ Falsy(call.args[1]) \/ Empty(call.args[2])

\* The configuration holds no empty value.
NoEmptyValues ==
    /\ ~ Falsy(name_prefix)
    /\ \A p \in DOMAIN name_mapping :
          ~ Falsy(p) /\ ~ Falsy(name_mapping[p])
    /\ ~ Empty(install_prefix)
    /\ \A alternative \in alternatives :
          ~ Empty(alternative[1]) /\ ~ Empty(alternative[2])
    /\ \A p \in DOMAIN scripts : ~ Falsy(p) /\ ~ Empty(scripts[p])

\* C17: set_name_prefix, rename_package, set_install_prefix,
\* install_alternative and set_conversion_command called with an empty
\* value (name, prefix, link, path or command) raise ValueError and leave
\* the whole configuration as it was; hence the name prefix and every
\* override are non-empty in every configuration that can be reached (and
\* so are the prefix of installation, the alternatives and the commands).
C17_EmptyValuesRejected ==
    [][ /\ EmptyValue(last_op') =>
              /\ last_op'.raised = "ValueError"
              /\ UNCHANGED config_vars
        /\ NoEmptyValues
        /\ NoEmptyValues'
      ]_vars

\* After overrides, alternatives and commands were registered and the
\* prefix was changed, install_alternative was called with an empty path.
C17_Witness ==
    /\ last_op.op = "install_alternative"
    /\ last_op.raised = "ValueError"
    /\ last_op.args[1] = "/usr/bin/py2deb"
    /\ last_op.args[2] = ""
    /\ name_prefix = s_py2deb
    /\ DOMAIN name_mapping = { s_foo }
    /\ DOMAIN scripts = { s_foo }
    /\ alternatives # { }
    /\ install_prefix # "/usr"

(***************************************************************************)
(* Properties of convert(): the configuration.                             *)
(***************************************************************************)

\* C18: convert leaves the configuration of the converter as it is, on
\* every path: from the call to its return or its exception no step
\* changes name_prefix, name_mapping, scripts, alternatives,
\* install_prefix, auto_install, max_download_attempts or the repository.
C18_ConvertLeavesConfiguration ==
    [][ ( \E self \in procs : pc[self] # "idle" \/ pc'[self] # "idle" ) =>
            /\ alternatives' = alternatives
            /\ auto_install' = auto_install
            /\ install_prefix' = install_prefix
            /\ max_download_attempts' = max_download_attempts
            /\ name_mapping' = name_mapping
            /\ name_prefix' = name_prefix
            /\ repository' = repository
            /\ scripts' = scripts
      ]_vars

\* A call under a configuration that is not the default one (repository,
\* override, one attempt) that converted a package, was told `not found'
\* and gave up.
C18_Witness ==
    /\ Exhausted(1)
    /\ stats[1].convert > 0
    /\ repository = RepoDir
    /\ DOMAIN name_mapping = { s_b }
    /\ max_download_attempts = 1

(***************************************************************************)
(* Properties of a second call of convert().                               *)
(***************************************************************************)

\* Once the first call has returned, the second call has the Packager
\* build nothing and moves nothing: every archive there is was in the
\* repository, or was built by the first call.
SecondCallConvertsNothing ==
    pc[1] = "returned" =>
        /\ pc[2] \notin { "convert", "move" }
        /\ stats[2].convert = 0
        /\ stats[2].moved = 0
        /\ builds = stats[1].convert
        /\ fault[2] \notin { "package.convert", "shutil.move" }

\* C19: convert is idempotent with respect to the repository: after a
\* call that returned, a second call with the same arguments and
\* configuration, whose resolver yields the same packages, invokes the
\* Packager zero times, leaves the contents of the repository directory
\* as they are and returns the descriptors the first call returned.  (The
\* resolvers of the two calls compared here also report `not found' the
\* same number of times.)
C19_Idempotent ==
    /\ SecondCallConvertsNothing
    /\ ( /\ pc[1] = "returned"
         /\ pc[2] = "returned"
         /\ backend[2] = backend[1] )
       => result[2] = result[1]

(***************************************************************************)
(* Properties of load_configuration().                                     *)
(***************************************************************************)

\* The place of a configuration method in the order of
\* load_configuration(): repository, name prefix, installation prefix,
\* automatic installation, alternatives, package sections.
Place(op) ==
    CASE op = "set_repository" -> 1
      [] op = "set_name_prefix" -> 2
      [] op = "set_install_prefix" -> 3
      [] op = "set_auto_install" -> 4
      [] op = "install_alternative" -> 5
      [] OTHER -> 6

InOrder(settings) ==
    \A n \in 1 .. Len(settings) - 1 :
        Place(settings[n].op) <= Place(settings[n + 1].op)

\* The value a call of a configuration method was made with is the one
\* the configuration holds.
InEffect(call) ==
    \/ /\ call.op = "set_repository"
       /\ repository = call.args[1]
    \/ /\ call.op = "set_name_prefix"
       /\ name_prefix = call.args[1]
    \/ /\ call.op = "set_install_prefix"
       /\ install_prefix = call.args[1]
    \/ /\ call.op = "set_auto_install"
       /\ auto_install = call.args[1]
    \/ /\ call.op = "install_alternative"
       /\ << call.args[1], call.args[2] >> \in alternatives
    \/ /\ call.op = "rename_package"
       /\ Get(name_mapping, lower(call.args[1])) = lower(call.args[2])
    \/ /\ call.op = "set_conversion_command"
       /\ lower(call.args[1]) \in DOMAIN scripts
       /\ scripts[lower(call.args[1])] = call.args[2]

\* C20: load_configuration applies the settings of the file through the
\* configuration methods, in the order repository, name prefix,
\* installation prefix, automatic installation, alternatives, package
\* sections, and not atomically: each step calls the method of the next
\* setting with its value; when the method returns the value is in
\* effect, and when it raises load_configuration raises, the
\* configuration is what the settings applied before have made it and no
\* later setting is applied.
C20_LoadInOrderNotAtomic ==
    [][ /\ loading.state = "loading" =>
              /\ last_op'.op = Head(loading.pending).op
              /\ last_op'.args = Head(loading.pending).args
              /\ IF last_op'.raised = "none"
                 THEN /\ InEffect(last_op)'
                      /\ loading'.pending = Tail(loading.pending)
                      /\ loading'.state =
                             IF Len(loading.pending) = 1
                             THEN "returned" ELSE "loading"
                 ELSE /\ UNCHANGED config_vars
                      /\ loading'.pending = loading.pending
                      /\ loading'.state = "raised"
        /\ loading.state # "loading" =>
              \/ loading' = loading
              \/ /\ last_op'.op = "load_configuration"
                 /\ UNCHANGED config_vars
        /\ InOrder(loading'.pending)
      ]_vars

\* load_configuration of a file with a name prefix, an empty installation
\* prefix, automatic installation and a package section: the name prefix
\* has been set, set_install_prefix has raised, and neither is automatic
\* installation enabled nor the package renamed.
C20_Witness ==
    /\ loading.state = "raised"
    /\ loading.file = "no-install-prefix.ini"
    /\ Len(loading.pending) = 3
    /\ last_op.op = "set_install_prefix"
    /\ last_op.raised = "ValueError"
    /\ name_prefix = s_py2deb
    /\ install_prefix = "/usr"
    /\ auto_install = FALSE
    /\ name_mapping = << >>

====
